---- MODULE Spec2Model ----
(***************************************************************************)
(* Model of slicer(g, dim, x0, xargs, N, w, m) of pyslicer.py: the        *)
(* coordinate-wise slice sampler with step-out and shrinkage.             *)
(*                                                                         *)
(* Reals are modelled on the integer lattice.  A random draw rand() in     *)
(* [0,1) is modelled by a rational whose denominator makes the value it    *)
(* is used for land on the lattice; log(rand()) is a negative integer or   *)
(* -infinity (rand() = 0).  A log-density value is a float: a finite       *)
(* integer, -infinity or NaN, with the comparisons and sums of IEEE.       *)
(***************************************************************************)
EXTENDS Integers, Sequences, FiniteSets

\* ---- bounds of the model ------------------------------------------------
MaxDim == 2     \* dim ranges over 1..MaxDim
MaxM == 3       \* m ranges over 0..MaxM
VDen == 3       \* V = rand() at line 52 ranges over k/VDen, k in 0..VDen-1

\* the chain lengths N offered to the call: no sweep, one step, two steps
Lengths == {1, 2, 3}

\* the widths w offered to the call, in lattice units; w <= 0 is the invalid width
Widths == {-1, 0, 1, 2}

\* ---- floats: finite, -infinity, NaN -------------------------------------
Fin(n) == <<"fin", n>>
NegInf == <<"ninf", 0>>
NaN == <<"nan", 0>>

IsFin(a) == a[1] = "fin"

\* a < b on floats: false whenever an operand is NaN
Less(a, b) ==
    IF a = NaN \/ b = NaN THEN FALSE
    ELSE IF b = NegInf THEN FALSE
    ELSE IF a = NegInf THEN TRUE
    ELSE a[2] < b[2]

\* a + b on floats without +infinity
Add(a, b) ==
    IF a = NaN \/ b = NaN THEN NaN
    ELSE IF a = NegInf \/ b = NegInf THEN NegInf
    ELSE Fin(a[2] + b[2])

Abs(n) == IF n < 0 THEN -n ELSE n
Sgn(n) == IF n < 0 THEN -1 ELSE IF n = 0 THEN 0 ELSE 1

\* ---- the caller's log-density g(x, xargs) -------------------------------
RECURSIVE SumAbs(_, _)
SumAbs(x, n) == IF n = 0 THEN 0 ELSE Abs(x[n - 1]) + SumAbs(x, n - 1)

Dims(x) == DOMAIN x

\* three targets, selected by xargs:
\*   "peak": -|x|_1, finite everywhere
\*   "box" : 0 on the cube |x_c| <= 1, -infinity outside
\*   "hole": as "peak" but NaN where x_0 >= 2
XArgs == {"peak", "box", "hole"}

g(x, xa) ==
    CASE xa = "peak" -> Fin(-SumAbs(x, Cardinality(Dims(x))))
      [] xa = "box" -> IF \A c \in Dims(x) : Abs(x[c]) <= 1 THEN Fin(0) ELSE NegInf
      [] xa = "hole" -> IF x[0] >= 2 THEN NaN
                        ELSE Fin(-SumAbs(x, Cardinality(Dims(x))))

\* ---- state --------------------------------------------------------------
VARIABLES
    dim, N, w, m, xargs, xinit,   \* the arguments of the call (xinit: x0 as passed)
    pc,                           \* position in slicer
    xs, likelies,                 \* the arrays returned
    x0, x1, L, R, Lbar, Rbar,     \* vectors
    way, i, d, y0, y, J, K,       \* scalars of the loop
    ys,                           \* history: slice height drawn for the step that fills index k
    writes,                       \* history: indices of xs/likelies written by line 74-75, in order
    drawn,                        \* history: rand() has been called
    nexp                          \* history: expansions done by the step-out of the current step

args == <<dim, N, w, m, xargs, xinit>>
vars == <<dim, N, w, m, xargs, xinit, pc, xs, likelies, x0, x1, L, R, Lbar, Rbar,
          way, i, d, y0, y, J, K, ys, writes, drawn, nexp>>

Zeros(n) == [c \in 0 .. n - 1 |-> 0]

\* line 45 without the clearing of line 44: the earlier directions stay set
OneHotNotCleared(n, k) == [c \in 0 .. n - 1 |-> IF c <= k THEN 1 ELSE 0]

\* lines 44-45: way cleared, then 1 in coordinate k
OneHot(n, k) == [c \in 0 .. n - 1 |-> IF c = k THEN 1 ELSE 0]

\* initial points offered to the call: the origin and (2, 0, ..)
InitPoints(n) == {Zeros(n), [c \in 0 .. n - 1 |-> IF c = 0 THEN 2 ELSE 0]}

Init ==
    /\ dim \in 1 .. MaxDim
    /\ N \in Lengths
    /\ w \in Widths
    /\ m \in 0 .. MaxM
    /\ xargs \in XArgs
    /\ xinit \in InitPoints(dim)
    /\ pc = "start"
    /\ xs = [k \in 0 .. N - 1 |-> Zeros(dim)]
    /\ likelies = [k \in 0 .. N - 1 |-> Fin(0)]
    /\ x0 = xinit
    /\ x1 = Zeros(dim)
    /\ L = Zeros(dim)
    /\ R = Zeros(dim)
    /\ Lbar = Zeros(dim)
    /\ Rbar = Zeros(dim)
    /\ way = Zeros(dim)
    /\ i = 0
    /\ d = 0
    /\ y0 = Fin(0)
    /\ y = Fin(0)
    /\ J = 0
    /\ K = 0
    /\ ys = [k \in 1 .. N - 1 |-> Fin(0)]
    /\ writes = <<>>
    /\ drawn = FALSE
    /\ nexp = 0

\* lines 30-40: allocate, record the initial guess, i = 1
Start ==
    /\ pc = "start"
    /\ xs' = [xs EXCEPT ![0] = x0]
    /\ likelies' = [likelies EXCEPT ![0] = g(x0, xargs)]
    /\ x1' = Zeros(dim)
    /\ L' = Zeros(dim)
    /\ R' = Zeros(dim)
    /\ way' = Zeros(dim)
    /\ i' = 1
    /\ pc' = "while"
    /\ UNCHANGED <<args, x0, Lbar, Rbar, d, y0, y, J, K, ys, writes, drawn, nexp>>

\* line 42-43: while i < N: for d in range(dim) (dim >= 1: the first d is 0)
While ==
    /\ pc = "while"
    /\ IF i < N
       THEN /\ d' = 0
            /\ pc' = "height"
       ELSE /\ d' = d
            /\ pc' = "done"
    /\ UNCHANGED <<args, xs, likelies, x0, x1, L, R, Lbar, Rbar, way, i, y0, y, J, K,
                   ys, writes, drawn, nexp>>

\* log(rand()) for rand() in [0,1): -infinity (rand() = 0) or a negative number
LogDraws == {NegInf, Fin(-1), Fin(-2)}

\* lines 44-47: way = e_d, y0 = g(x0), y = y0 + log(rand())
Height ==
    /\ pc = "height"
    /\ \E lu \in LogDraws :
        /\ way' = OneHot(dim, d)
        /\ y0' = g(x0, xargs)
        /\ y' = Add(g(x0, xargs), lu)
    /\ drawn' = TRUE
    /\ nexp' = 0
    /\ pc' = "place"
    /\ UNCHANGED <<args, xs, likelies, x0, x1, L, R, Lbar, Rbar, i, d, J, K, ys, writes>>

\* vector a + s * way
AddWay(a, s, wy) == [c \in DOMAIN a |-> a[c] + s * wy[c]]

\* w * U with the sign of the offset slipped
WidthDrawsNegated(ww) == IF ww = 0 THEN {0} ELSE {-Sgn(ww) * k : k \in 0 .. Abs(ww) - 1}

\* w * U for U = rand() in [0,1) on the lattice: U = k/|w|, k in 0..|w|-1
WidthDraws(ww) == IF ww = 0 THEN {0} ELSE {Sgn(ww) * k : k \in 0 .. Abs(ww) - 1}

\* lines 49-51: U = rand(); L = x0 - w*way*U; R = L + w*way
Place ==
    /\ pc = "place"
    /\ \E wU \in WidthDraws(w) :
        /\ L' = AddWay(x0, -wU, way)
        /\ R' = AddWay(AddWay(x0, -wU, way), w, way)
    /\ pc' = "budget"
    /\ UNCHANGED <<args, xs, likelies, x0, x1, Lbar, Rbar, way, i, d, y0, y, J, K,
                   ys, writes, drawn, nexp>>

\* np.ceil(m * V) in place of np.floor(m * V)
CeilMV(mm, k) == -((-(mm * k)) \div VDen)

\* np.floor(m * V) for V = k / VDen  (\div rounds towards -infinity)
FloorMV(mm, k) == (mm * k) \div VDen

\* lines 52-54: V = rand(); J = floor(m*V); K = (m-1) - J
Budget ==
    /\ pc = "budget"
    /\ \E k \in 0 .. VDen - 1 :
        /\ J' = FloorMV(m, k)
        /\ K' = (m - 1) - FloorMV(m, k)
    /\ pc' = "left"
    /\ UNCHANGED <<args, xs, likelies, x0, x1, L, R, Lbar, Rbar, way, i, d, y0, y,
                   ys, writes, drawn, nexp>>

\* the guard written with != 0 in place of > 0
StepOutGuardNonZero(budget, yy, end, xa) == budget # 0 /\ Less(yy, g(end, xa))

\* the guard of the two step-out loops: budget left and the end still in the slice
StepOutGuard(budget, yy, end, xa) == budget > 0 /\ Less(yy, g(end, xa))

\* lines 55-57: one test of the left loop, and its body
StepOutLeft ==
    /\ pc = "left"
    /\ IF StepOutGuard(J, y, L, xargs)
       THEN /\ L' = AddWay(L, -w, way)
            /\ J' = J - 1
            /\ nexp' = nexp + 1
            /\ pc' = "left"
       ELSE /\ UNCHANGED <<L, J, nexp>>
            /\ pc' = "right"
    /\ UNCHANGED <<args, xs, likelies, x0, x1, R, Lbar, Rbar, way, i, d, y0, y, K,
                   ys, writes, drawn>>

\* lines 58-63: one test of the right loop, and its body; on exit Lbar, Rbar = L, R
StepOutRight ==
    /\ pc = "right"
    /\ IF StepOutGuard(K, y, R, xargs)
       THEN /\ R' = AddWay(R, w, way)
            /\ K' = K - 1
            /\ nexp' = nexp + 1
            /\ pc' = "right"
            /\ UNCHANGED <<Lbar, Rbar>>
       ELSE /\ UNCHANGED <<R, K, nexp>>
            /\ Lbar' = L
            /\ Rbar' = R
            /\ pc' = "shrink"
    /\ UNCHANGED <<args, xs, likelies, x0, x1, L, way, i, d, y0, y, J,
                   ys, writes, drawn>>

\* Lbar + U * (Rbar - Lbar) for U = k/n
Lerp(a, b, k, n) == [c \in DOMAIN a |-> a[c] + (k * (b[c] - a[c])) \div n]

\* the draws U = k/n of line 65 that put x1 on the lattice: n is the length of
\* the working bracket along d (n = 1 for an empty bracket, where x1 = Lbar)
ShrinkDen(a, b, dd) == IF a[dd] = b[dd] THEN 1 ELSE Abs(b[dd] - a[dd])

\* line 70 with the comparison turned round
ShrinksLeftFlipped(cand, xx0, dd) == cand[dd] > xx0[dd]

\* line 70: a rejected candidate left of x0 becomes the new left end
ShrinksLeft(cand, xx0, dd) == cand[dd] < xx0[dd]

\* line 68 written with <= in place of <
AcceptOrEqual(yy, cand, xa) ==
    Less(yy, g(cand, xa)) \/ (yy # NaN /\ yy = g(cand, xa))

\* line 68: the candidate is in the slice
Accept(yy, cand, xa) == Less(yy, g(cand, xa))

\* lines 65-73: one pass of the shrinkage loop
Shrink ==
    /\ pc = "shrink"
    /\ \E k \in 0 .. ShrinkDen(Lbar, Rbar, d) - 1 :
        LET cand == Lerp(Lbar, Rbar, k, ShrinkDen(Lbar, Rbar, d)) IN
        /\ x1' = cand
        /\ IF Accept(y, cand, xargs)
           THEN /\ pc' = "record"
                /\ UNCHANGED <<Lbar, Rbar>>
           ELSE /\ pc' = "shrink"
                /\ IF ShrinksLeft(cand, x0, d)
                   THEN /\ Lbar' = cand
                        /\ Rbar' = Rbar
                   ELSE /\ Rbar' = cand
                        /\ Lbar' = Lbar
    /\ UNCHANGED <<args, xs, likelies, x0, L, R, way, i, d, y0, y, J, K,
                   ys, writes, drawn, nexp>>

\* the index written one too low
WriteIndexBefore(ii) == ii - 1

\* the index lines 74-75 write
WriteIndex(ii) == ii

\* line 78 written with > in place of >=
SweepEndsLate(ii, NN) == ii > NN

\* line 78: the chain is full, leave the sweep
SweepEnds(ii, NN) == ii >= NN

\* the log-density of the new point recorded in place of y0
LikelyOfNewPoint(yy0, cand, xa) == g(cand, xa)

\* the value line 75 records
Likely(yy0, cand, xa) == yy0

\* lines 74-79 and the for/while bookkeeping that follows them
Record ==
    /\ pc = "record"
    /\ xs' = [xs EXCEPT ![WriteIndex(i)] = x1]
    /\ likelies' = [likelies EXCEPT ![WriteIndex(i)] = Likely(y0, x1, xargs)]
    /\ ys' = [ys EXCEPT ![WriteIndex(i)] = y]
    /\ writes' = Append(writes, WriteIndex(i))
    /\ x0' = x1
    /\ i' = i + 1
    /\ IF SweepEnds(i + 1, N)
       THEN /\ pc' = "while"
            /\ d' = d
       ELSE IF d + 1 < dim
            THEN /\ pc' = "height"
                 /\ d' = d + 1
            ELSE /\ pc' = "while"
                 /\ d' = d
    /\ UNCHANGED <<args, x1, L, R, Lbar, Rbar, way, y0, y, J, K, drawn, nexp>>

Next ==
    \/ Start
    \/ While
    \/ Height
    \/ Place
    \/ Budget
    \/ StepOutLeft
    \/ StepOutRight
    \/ Shrink
    \/ Record

Spec == Init /\ [][Next]_vars

\* The interpreter keeps running the call, and the draws of rand() are fair:
\* a draw that lands in the slice is not avoided for ever.
FairSpec ==
    /\ Init
    /\ [][Next]_vars
    /\ WF_vars(Next)
    /\ SF_vars(Shrink /\ pc' = "record")

\* ---- properties -----------------------------------------------------------

InStep == pc \in {"budget", "left", "right", "shrink", "record"}
SteppedOut == pc \in {"shrink", "record"}
Filled == IF pc = "start" THEN {} ELSE 1 .. (i - 1)
Between(a, p, b) == (a <= p /\ p <= b) \/ (b <= p /\ p <= a)

\* C1: once the call has recorded its initial guess, chain[0] is the point the
\* caller passed and likelihoods[0] is its log-density, in every later state
\* of the run, whatever the draws.
C1_InitialEntryKept ==
    pc # "start" => /\ xs[0] = xinit
                    /\ likelies[0] = g(xinit, xargs)

C1_Witness ==
    /\ pc = "done"
    /\ N = 3
    /\ xs[1] # xinit
    /\ xs[2] # xs[1]

\* C2: the indices written by the sweeps are exactly 1, 2, .., i-1 in that
\* order, i never exceeds N, and on return all of 1..N-1 has been written
\* once, also when the last sweep stops before its last coordinate.
C2_WritesInOrder ==
    /\ writes = [k \in 1 .. Len(writes) |-> k]
    /\ i <= N
    /\ pc # "start" => Len(writes) = i - 1
    /\ pc = "done" => Len(writes) = N - 1

C2_Witness ==
    /\ pc = "done"
    /\ N = 2
    /\ dim = 2
    /\ writes = <<1>>

\* C3: the log-density of every recorded point is strictly above the slice
\* height drawn for the step that produced it, and the shrinkage loop leaves
\* only with such a candidate.
C3_AcceptedAboveSlice ==
    /\ \A k \in Filled : Less(ys[k], g(xs[k], xargs))
    /\ pc = "record" => Less(y, g(x1, xargs))

C3_Witness ==
    /\ pc = "done"
    /\ N = 3
    /\ Lbar # L
    /\ Rbar # R
    /\ ys[2] = Add(g(xs[2], xargs), Fin(-1))

C5_BracketContainsPoint ==
    (w > 0 /\ InStep) =>
        /\ L[d] <= x0[d]
        /\ x0[d] <= R[d]
        /\ \A c \in 0 .. dim - 1 : c # d => (L[c] = x0[c] /\ R[c] = x0[c])

C5_Witness ==
    /\ w > 0
    /\ dim = 2
    /\ pc = "shrink"
    /\ nexp = 2
    /\ L[d] < x0[d]
    /\ x0[d] < R[d] - w

\* C6: a call with w <= 0 consumes no draw, writes no entry after index 0 and
\* does not return a chain.
C6_InvalidWidthRejected ==
    w <= 0 => /\ ~drawn
              /\ writes = <<>>
              /\ pc # "done"

\* C7: with m = 0 the step-out expands on neither side: the budgets are 0 and
\* -1 and the bracket handed to shrinkage is the placed one, of width w.
C7_NoExpansionAtZero ==
    (m = 0 /\ pc \in {"left", "right", "shrink", "record"}) =>
        /\ nexp = 0
        /\ J = 0
        /\ K = -1
        /\ R[d] - L[d] = w

C7_Witness ==
    /\ m = 0
    /\ w > 0
    /\ pc = "shrink"
    /\ Lbar = L
    /\ Rbar = R
    /\ Less(y, g(R, xargs))
    /\ Less(y, g(L, xargs))

\* C8: for m >= 1 the budgets stay non-negative, J + K plus the expansions
\* done is m - 1, so at most m - 1 expansions are done, and the bracket is
\* (1 + expansions) * w wide, at most m * w for a positive w.
C8_BudgetSplit ==
    (m >= 1 /\ pc \in {"left", "right", "shrink", "record"}) =>
        /\ J >= 0
        /\ K >= 0
        /\ J + K + nexp = m - 1
        /\ nexp <= m - 1
        /\ R[d] - L[d] = (1 + nexp) * w
        /\ w > 0 => R[d] - L[d] <= m * w

C8_Witness ==
    /\ m = 2
    /\ w = 2
    /\ pc = "shrink"
    /\ nexp = 1
    /\ J = 0
    /\ K = 0
    /\ R[d] - L[d] = 4

\* C9: for w > 0, m >= 1 and a log-density finite at the initial point, the
\* working bracket contains the current point after every rejection, and
\* under fair draws the call returns with all N entries filled.
ValidCall == w > 0 /\ m >= 1 /\ IsFin(g(xinit, xargs))

C10_OneCoordinateMoves ==
    /\ \A k \in Filled : \A c \in 0 .. dim - 1 :
           c # (k - 1) % dim => xs[k][c] = xs[k - 1][c]
    /\ InStep => /\ d = (i - 1) % dim
                 /\ \A c \in 0 .. dim - 1 : way[c] = IF c = d THEN 1 ELSE 0
                 /\ \A c \in 0 .. dim - 1 : c # d => (L[c] = x0[c] /\ R[c] = x0[c])
    /\ SteppedOut => \A c \in 0 .. dim - 1 :
                        c # d => (Lbar[c] = x0[c] /\ Rbar[c] = x0[c])
    /\ pc = "record" => /\ \A c \in 0 .. dim - 1 : c # d => x1[c] = x0[c]
                        /\ Between(L[d], x1[d], R[d])

C10_Witness ==
    /\ pc = "done"
    /\ dim = 2
    /\ N = 3
    /\ xs[1][0] # xs[0][0]
    /\ xs[2][1] # xs[1][1]

====
